---- MODULE Spec2Model ----
(***************************************************************************)
(* misc::repeater (src/src/misc/repeater.h): an owning thread holding the  *)
(* repeater object and one worker thread running repeater_functor.         *)
(* Every load, store, notify and condition-variable transition is one      *)
(* step, so all interleavings of the two threads are explored.             *)
(***************************************************************************)
EXTENDS Naturals, FiniteSets, Sequences, TLC

\* ---- bounds of the exploration ----
MaxTimeouts == 2      \* interval timeouts counted while the repeater runs
MaxInterrupts == 2    \* calls of interrupt()
MaxStops == 2         \* explicit calls of stop()

VARIABLES
    is_running_ptr,          \* *is_running_ptr (atomic_bool)
    is_interrupted_ptr,      \* *is_interrupted_ptr (atomic_bool)
    execute_if_interrupted,  \* repeater_functor::execute_if_interrupted
    is_interrupted,          \* local of operator(): result of wait_for
    pc,                      \* position of the worker thread in operator()
    opc,                     \* position of the owning thread
    inDtor,                  \* the owning thread is inside ~repeater
    t_joinable,              \* t.joinable()
    count,                   \* callback invocations begun (the tests' count)
    \* ---- history (observers, never read by the program) ----
    timeouts,                \* interval timeouts elapsed while running
    nInterrupts,             \* interrupt() calls begun
    nStops,                  \* explicit stop() calls begun
    stopReturned,            \* some stop() has returned
    cbAfterStop,             \* callbacks begun after a stop() returned
    armedAtStop,             \* worker was past line 113 when stop() wrote
    rises,                   \* false->true writes of *is_interrupted_ptr
    coalesced,               \* interrupt() writes that found the flag true
    intrWakes,               \* waits that returned true
    runFalls,                \* true->false writes of *is_running_ptr
    waitCall,                \* a call began inside the current wait
    unserved,                \* an interrupt() not yet answered by a callback
    dtorPc,                  \* worker position when ~repeater was entered
    spurious,                \* a spurious wake-up has happened
    use_count,               \* owners of the shared flags and signal
    flagBy,                  \* who last wrote the flag false->true
    wake,                    \* the wait return whose reset is pending
    observed,                \* a wait returned true since the last interrupt()
    stopDuringFn,            \* stop() wrote while the callback was running
    stopAfterDone            \* stop() began after the worker had exited

vars == <<is_running_ptr, is_interrupted_ptr, execute_if_interrupted,
          is_interrupted, pc, opc, inDtor, t_joinable, count,
          timeouts, nInterrupts, nStops, stopReturned, cbAfterStop,
          armedAtStop, rises, coalesced, intrWakes, runFalls, waitCall,
          unserved, dtorPc, spurious,
          use_count, flagBy, wake, observed, stopDuringFn, stopAfterDone>>

hist == <<timeouts, nInterrupts, nStops, stopReturned, cbAfterStop,
          armedAtStop, rises, coalesced, intrWakes, runFalls, waitCall,
          unserved, dtorPc, spurious>>

obs == <<use_count, flagBy, wake, observed, stopDuringFn, stopAfterDone>>

\* positions of the worker inside wait_for
InWait == {"pred", "enter", "blocked", "tpred"}

\* ---- pure pieces of the code ----

\* while (is_running_ptr->load())                              line 104
LoopCondAlways(r) == TRUE
LoopCond(r) == r

\* [this] { return is_interrupted_ptr->load(); }               line 111
WaitPredNone(f) == TRUE
WaitPred(f) == f

\* if (is_running_ptr->load())                                 line 113
PostWaitCheckNone(r) == TRUE
PostWaitCheck(r) == r

\* if (!is_interrupted || execute_if_interrupted)              line 116
ShouldExecuteAlways(i, e) == TRUE
ShouldExecuteSwapped(i, e) == i \/ e
ShouldExecute(i, e) == (~i) \/ e

\* is_interrupted_ptr->store(false)                            line 122
ResetValueKeep(f) == f
ResetValue(f) == FALSE

\* is_running_ptr->store(false)                                line 172
StopRunningValueToggle(r) == ~r
StopRunningValueKeep(r) == r
StopRunningValue(r) == FALSE

\* the shared_ptr members of repeater (lines 43-45) and the copies held by
\* repeater_functor (lines 67-69, 90-92) own the flags and the signal
SharedOwnersHandleOnly == Cardinality({"repeater"})
SharedOwners == Cardinality({"repeater", "repeater_functor"})

\* cv_ptr->notify_one(): a thread blocked on the condition variable is
\* released and re-evaluates the predicate; otherwise nothing happens.
NotifyOne(p) == IF p = "blocked" THEN "pred" ELSE p

\* t.join() returns once the thread function has returned      line 155
JoinDoneNoWait(p) == TRUE
JoinDone(p) == p = "done"

\* ---- construction ----
\* repeater::repeater: running = true, interrupted = false, thread started
Init ==
    /\ is_running_ptr = TRUE
    /\ is_interrupted_ptr = FALSE
    /\ execute_if_interrupted \in BOOLEAN
    /\ is_interrupted = FALSE
    /\ pc = "loop"
    /\ opc = "idle"
    /\ inDtor = FALSE
    /\ t_joinable = TRUE
    /\ count = 0
    /\ timeouts = 0
    /\ nInterrupts = 0
    /\ nStops = 0
    /\ stopReturned = FALSE
    /\ cbAfterStop = 0
    /\ armedAtStop = FALSE
    /\ rises = 0
    /\ coalesced = 0
    /\ intrWakes = 0
    /\ runFalls = 0
    /\ waitCall = FALSE
    /\ unserved = FALSE
    /\ dtorPc = "none"
    /\ spurious = FALSE
    /\ use_count = SharedOwners
    /\ flagBy = "none"
    /\ wake = "none"
    /\ observed = FALSE
    /\ stopDuringFn = FALSE
    /\ stopAfterDone = FALSE

\* ---- the worker: repeater_functor::operator() ----

\* line 104: the loop condition; line 106 takes the thread-local mutex and
\* line 108 enters wait_for
w_loop ==
    /\ pc = "loop"
    /\ pc' = IF LoopCond(is_running_ptr) THEN "pred" ELSE "done"
    /\ waitCall' = FALSE
    /\ UNCHANGED <<is_running_ptr, is_interrupted_ptr, execute_if_interrupted,
                   is_interrupted, opc, inDtor, t_joinable, count,
                   timeouts, nInterrupts, nStops, stopReturned, cbAfterStop,
                   armedAtStop, rises, coalesced, intrWakes, runFalls,
                   unserved, dtorPc>>
    /\ UNCHANGED spurious
    /\ use_count' = IF pc' = "done" THEN use_count - 1 ELSE use_count
    /\ UNCHANGED <<flagBy, wake, observed, stopDuringFn, stopAfterDone>>

\* wait_for: while (!pred()) ...; return true
w_pred ==
    /\ pc = "pred"
    /\ IF WaitPred(is_interrupted_ptr)
         THEN /\ is_interrupted' = TRUE
              /\ pc' = "check"
              /\ intrWakes' = intrWakes + 1
              /\ waitCall' = FALSE
         ELSE /\ pc' = "enter"
              /\ UNCHANGED <<is_interrupted, intrWakes, waitCall>>
    /\ UNCHANGED <<is_running_ptr, is_interrupted_ptr, execute_if_interrupted,
                   opc, inDtor, t_joinable, count,
                   timeouts, nInterrupts, nStops, stopReturned, cbAfterStop,
                   armedAtStop, rises, coalesced, runFalls, unserved, dtorPc>>
    /\ UNCHANGED spurious
    /\ wake' = IF pc' = "check" THEN flagBy ELSE wake
    /\ observed' = (observed \/ pc' = "check")
    /\ UNCHANGED <<use_count, flagBy, stopDuringFn, stopAfterDone>>

\* wait_for: the predicate was false, the thread blocks on the condition
\* variable (the mutex it releases is local to the worker)
w_block ==
    /\ pc = "enter"
    /\ pc' = "blocked"
    /\ UNCHANGED <<is_running_ptr, is_interrupted_ptr, execute_if_interrupted,
                   is_interrupted, opc, inDtor, t_joinable, count>>
    /\ UNCHANGED hist
    /\ UNCHANGED obs

\* wait_for: the interval elapses while the thread is blocked
w_timeout ==
    /\ pc = "blocked"
    /\ is_running_ptr => timeouts < MaxTimeouts
    /\ pc' = "tpred"
    /\ timeouts' = IF is_running_ptr THEN timeouts + 1 ELSE timeouts
    /\ UNCHANGED <<is_running_ptr, is_interrupted_ptr, execute_if_interrupted,
                   is_interrupted, opc, inDtor, t_joinable, count,
                   nInterrupts, nStops, stopReturned, cbAfterStop,
                   armedAtStop, rises, coalesced, intrWakes, runFalls,
                   waitCall, unserved, dtorPc>>
    /\ UNCHANGED spurious
    /\ UNCHANGED obs

\* wait_for: on timeout, return pred()
w_tpred ==
    /\ pc = "tpred"
    /\ is_interrupted' = WaitPred(is_interrupted_ptr)
    /\ pc' = "check"
    /\ intrWakes' = IF WaitPred(is_interrupted_ptr)
                      THEN intrWakes + 1 ELSE intrWakes
    /\ waitCall' = FALSE
    /\ UNCHANGED <<is_running_ptr, is_interrupted_ptr, execute_if_interrupted,
                   opc, inDtor, t_joinable, count,
                   timeouts, nInterrupts, nStops, stopReturned, cbAfterStop,
                   armedAtStop, rises, coalesced, runFalls, unserved, dtorPc>>
    /\ UNCHANGED spurious
    /\ wake' = IF is_interrupted' THEN flagBy ELSE "timeout"
    /\ observed' = (observed \/ is_interrupted')
    /\ UNCHANGED <<use_count, flagBy, stopDuringFn, stopAfterDone>>

\* a spurious wake-up of the condition variable
w_spurious ==
    /\ pc = "blocked"
    /\ pc' = "pred"
    /\ spurious' = TRUE
    /\ UNCHANGED <<is_running_ptr, is_interrupted_ptr, execute_if_interrupted,
                   is_interrupted, opc, inDtor, t_joinable, count,
                   timeouts, nInterrupts, nStops, stopReturned, cbAfterStop,
                   armedAtStop, rises, coalesced, intrWakes, runFalls,
                   waitCall, unserved, dtorPc>>
    /\ UNCHANGED obs

\* line 113: if (is_running_ptr->load()); when false the block is skipped,
\* the lock is released and control returns to line 104
w_check ==
    /\ pc = "check"
    /\ pc' = IF PostWaitCheck(is_running_ptr) THEN "decide" ELSE "loop"
    /\ UNCHANGED <<is_running_ptr, is_interrupted_ptr, execute_if_interrupted,
                   is_interrupted, opc, inDtor, t_joinable, count>>
    /\ UNCHANGED hist
    /\ UNCHANGED obs

\* lines 116-118: the callback begins, or is skipped
w_decide ==
    /\ pc = "decide"
    /\ IF ShouldExecute(is_interrupted, execute_if_interrupted)
         THEN /\ pc' = "fn"
              /\ count' = count + 1
              /\ cbAfterStop' = IF stopReturned THEN cbAfterStop + 1
                                                ELSE cbAfterStop
              /\ unserved' = IF is_interrupted THEN FALSE ELSE unserved
         ELSE /\ pc' = "reset"
              /\ UNCHANGED <<count, cbAfterStop, unserved>>
    /\ UNCHANGED <<is_running_ptr, is_interrupted_ptr, execute_if_interrupted,
                   is_interrupted, opc, inDtor, t_joinable,
                   timeouts, nInterrupts, nStops, stopReturned,
                   armedAtStop, rises, coalesced, intrWakes, runFalls,
                   waitCall, dtorPc>>
    /\ UNCHANGED spurious
    /\ UNCHANGED obs

\* line 118: fn() returns
w_fn_return ==
    /\ pc = "fn"
    /\ pc' = "reset"
    /\ UNCHANGED <<is_running_ptr, is_interrupted_ptr, execute_if_interrupted,
                   is_interrupted, opc, inDtor, t_joinable, count>>
    /\ UNCHANGED hist
    /\ UNCHANGED obs

\* line 122: is_interrupted_ptr->store(false); end of the loop body
w_reset ==
    /\ pc = "reset"
    /\ is_interrupted_ptr' = ResetValue(is_interrupted_ptr)
    /\ pc' = "loop"
    /\ UNCHANGED <<is_running_ptr, execute_if_interrupted,
                   is_interrupted, opc, inDtor, t_joinable, count>>
    /\ UNCHANGED hist
    /\ wake' = IF is_interrupted_ptr' THEN wake ELSE "none"
    /\ flagBy' = IF is_interrupted_ptr' THEN flagBy ELSE "none"
    /\ UNCHANGED <<use_count, observed, stopDuringFn, stopAfterDone>>

\* ---- the owning thread ----

\* line 166: interrupt() stores true
interrupt_store ==
    /\ opc = "idle"
    /\ nInterrupts < MaxInterrupts
    /\ is_interrupted_ptr' = TRUE
    /\ opc' = "interrupt_notify"
    /\ nInterrupts' = nInterrupts + 1
    /\ rises' = IF is_interrupted_ptr THEN rises ELSE rises + 1
    /\ coalesced' = IF is_interrupted_ptr THEN coalesced + 1 ELSE coalesced
    /\ waitCall' = (waitCall \/ pc \in {"enter", "blocked"})
    /\ unserved' = TRUE
    /\ UNCHANGED <<is_running_ptr, execute_if_interrupted, is_interrupted,
                   pc, inDtor, t_joinable, count,
                   timeouts, nStops, stopReturned, cbAfterStop,
                   armedAtStop, intrWakes, runFalls, dtorPc>>
    /\ UNCHANGED spurious
    /\ flagBy' = IF is_interrupted_ptr THEN flagBy ELSE "interrupt"
    /\ observed' = FALSE
    /\ UNCHANGED <<use_count, wake, stopDuringFn, stopAfterDone>>

\* interrupt() as it would be if it locked the mutex the worker holds from
\* line 106 to the end of the loop body, except while blocked in wait_for
interrupt_notify_locked ==
    /\ opc = "interrupt_notify"
    /\ pc \in {"loop", "blocked", "done"}
    /\ pc' = NotifyOne(pc)
    /\ opc' = "idle"
    /\ UNCHANGED <<is_running_ptr, is_interrupted_ptr, execute_if_interrupted,
                   is_interrupted, inDtor, t_joinable, count>>
    /\ UNCHANGED hist
    /\ UNCHANGED obs

\* line 167: interrupt() notifies and returns
interrupt_notify ==
    /\ opc = "interrupt_notify"
    /\ pc' = NotifyOne(pc)
    /\ opc' = "idle"
    /\ UNCHANGED <<is_running_ptr, is_interrupted_ptr, execute_if_interrupted,
                   is_interrupted, inDtor, t_joinable, count>>
    /\ UNCHANGED hist
    /\ UNCHANGED obs

\* line 172, shared by the explicit call and the call from ~repeater
StopStoreRunning ==
    /\ opc = "idle"
    /\ is_running_ptr' = StopRunningValue(is_running_ptr)
    /\ opc' = "stop_interrupted"
    /\ runFalls' = IF is_running_ptr /\ ~is_running_ptr'
                     THEN runFalls + 1 ELSE runFalls
    /\ armedAtStop' = (armedAtStop \/ (is_running_ptr /\ pc = "decide"))
    /\ waitCall' = (waitCall \/ pc \in {"enter", "blocked"})
    /\ UNCHANGED <<is_interrupted_ptr, execute_if_interrupted, is_interrupted,
                   pc, t_joinable, count,
                   timeouts, nInterrupts, stopReturned, cbAfterStop,
                   rises, coalesced, intrWakes, unserved>>
    /\ UNCHANGED spurious
    /\ stopDuringFn' = (stopDuringFn \/ pc = "fn")
    /\ stopAfterDone' = (stopAfterDone \/ pc = "done")
    /\ UNCHANGED <<use_count, flagBy, wake, observed>>

\* stop() called by the owner
stop_begin ==
    /\ nStops < MaxStops
    /\ StopStoreRunning
    /\ nStops' = nStops + 1
    /\ UNCHANGED <<inDtor, dtorPc>>

\* ~repeater: line 151 calls stop()
dtor_begin ==
    /\ StopStoreRunning
    /\ inDtor' = TRUE
    /\ dtorPc' = pc
    /\ UNCHANGED nStops

\* line 173
stop_interrupted ==
    /\ opc = "stop_interrupted"
    /\ is_interrupted_ptr' = TRUE
    /\ opc' = "stop_notify"
    /\ rises' = IF is_interrupted_ptr THEN rises ELSE rises + 1
    /\ UNCHANGED <<is_running_ptr, execute_if_interrupted, is_interrupted,
                   pc, inDtor, t_joinable, count,
                   timeouts, nInterrupts, nStops, stopReturned, cbAfterStop,
                   armedAtStop, coalesced, intrWakes, runFalls, waitCall,
                   unserved, dtorPc>>
    /\ UNCHANGED spurious
    /\ flagBy' = IF is_interrupted_ptr THEN flagBy ELSE "stop"
    /\ UNCHANGED <<use_count, wake, observed, stopDuringFn, stopAfterDone>>

\* line 174: notify, then return to the caller (the owner or ~repeater)
stop_notify ==
    /\ opc = "stop_notify"
    /\ pc' = NotifyOne(pc)
    /\ opc' = IF inDtor THEN "join" ELSE "idle"
    /\ stopReturned' = TRUE
    /\ UNCHANGED <<is_running_ptr, is_interrupted_ptr, execute_if_interrupted,
                   is_interrupted, inDtor, t_joinable, count,
                   timeouts, nInterrupts, nStops, cbAfterStop,
                   armedAtStop, rises, coalesced, intrWakes, runFalls,
                   waitCall, unserved, dtorPc>>
    /\ UNCHANGED spurious
    /\ UNCHANGED obs

\* lines 153-156: if (t.joinable()) t.join();
dtor_join ==
    /\ opc = "join"
    /\ IF t_joinable
         THEN /\ JoinDone(pc)
              /\ t_joinable' = FALSE
         ELSE UNCHANGED t_joinable
    /\ opc' = "destroyed"
    /\ UNCHANGED <<is_running_ptr, is_interrupted_ptr, execute_if_interrupted,
                   is_interrupted, pc, inDtor, count>>
    /\ UNCHANGED hist
    /\ use_count' = use_count - 1
    /\ UNCHANGED <<flagBy, wake, observed, stopDuringFn, stopAfterDone>>

\* line 155 when t.join() throws std::system_error: the exception is caught
\* at lines 158-161 and t stays joinable
dtor_join_throws ==
    /\ opc = "join"
    /\ t_joinable
    /\ opc' = "caught"
    /\ UNCHANGED <<is_running_ptr, is_interrupted_ptr, execute_if_interrupted,
                   is_interrupted, pc, inDtor, t_joinable, count>>
    /\ UNCHANGED hist
    /\ UNCHANGED obs

\* line 162 after the catch: the members are destroyed, t (line 46) first;
\* the destructor of a joinable std::thread calls std::terminate
dtor_members ==
    /\ opc = "caught"
    /\ IF t_joinable
         THEN /\ opc' = "terminated"
              /\ UNCHANGED use_count
         ELSE /\ opc' = "destroyed"
              /\ use_count' = use_count - 1
    /\ UNCHANGED <<is_running_ptr, is_interrupted_ptr, execute_if_interrupted,
                   is_interrupted, pc, inDtor, t_joinable, count>>
    /\ UNCHANGED hist
    /\ UNCHANGED <<flagBy, wake, observed, stopDuringFn, stopAfterDone>>

WorkerStep ==
    \/ w_loop
    \/ w_pred
    \/ w_block
    \/ w_timeout
    \/ w_tpred
    \/ w_check
    \/ w_decide
    \/ w_fn_return
    \/ w_reset

OwnerCall ==
    \/ interrupt_store
    \/ stop_begin
    \/ dtor_begin

OwnerStep ==
    \/ interrupt_notify
    \/ stop_interrupted
    \/ stop_notify
    \/ dtor_join

Next ==
    \/ WorkerStep
    \/ w_spurious
    \/ OwnerCall
    \/ OwnerStep

Spec == Init /\ [][Next]_vars

\* Both threads are scheduled fairly, a started call runs to its end, the
\* callback returns and the interval of a blocked wait eventually elapses.
\* Spurious wake-ups and new calls by the owner are never forced.
FairSpec ==
    /\ Spec
    /\ WF_vars(WorkerStep)
    /\ WF_vars(w_timeout)
    /\ WF_vars(OwnerStep)

\* The same program where t.join() may fail; nothing runs after
\* std::terminate.
NextFail ==
    \/ (opc # "terminated" /\ Next)
    \/ dtor_join_throws
    \/ dtor_members

SpecFail == Init /\ [][NextFail]_vars

\* ---- properties ----

\* the owning thread is not inside interrupt() or stop()
CallsReturned == opc \in {"idle", "join", "destroyed"}

\* C1 (as stated): after stop() has returned no callback invocation begins.
C1_NoCallbackAfterStop == cbAfterStop = 0

\* C1 (amended): after stop() has returned at most one callback invocation
\* begins, and only when the worker had already passed the check of line 113
\* at the moment stop() wrote *is_running_ptr.
C1_AtMostOneArmedCallback == cbAfterStop <= (IF armedAtStop THEN 1 ELSE 0)

C1_Witness ==
    /\ stopReturned
    /\ armedAtStop
    /\ cbAfterStop = 1
    /\ pc = "done"

\* C2: when ~repeater has returned the worker has left its loop and has been
\* joined, so no callback is in progress or can begin, with or without an
\* explicit stop() before.
C2_DestroyedImpliesTerminal ==
    opc = "destroyed" => (pc = "done" /\ ~t_joinable /\ ~is_running_ptr)

C2_Witness ==
    /\ opc = "destroyed"
    /\ nStops = 0
    /\ count > 0

\* C3: once ~repeater is entered, the worker terminates and the join
\* completes (fair scheduling, terminating callback, interval elapsing).
C3_DestructionTerminates == inDtor ~> (opc = "destroyed")

C3_Witness ==
    /\ opc = "destroyed"
    /\ dtorPc = "enter"

\* C4 (as stated): when interrupt() or stop() is called while the worker is
\* inside wait_for (predicate just found false, or blocked), the call's
\* store and notification release the worker: once the call has returned
\* the worker is not left blocked waiting for the interval to elapse.
C4_CallReleasesWaitingWorker ==
    (waitCall /\ CallsReturned) => pc # "blocked"

\* C5 (as stated): with execute_if_interrupted and no stop(), an interrupt()
\* that has returned and has not yet been answered by an interrupt-triggered
\* callback never leaves the worker blocked waiting for the interval.
C5_InterruptTriggersCallback ==
    (execute_if_interrupted /\ is_running_ptr /\ unserved /\ opc = "idle")
        => pc # "blocked"

\* C6: with execute_if_interrupted false, a wait that returned true never
\* runs the callback: the worker skips to the reset, the reset clears the
\* flag and returns to the loop top; every callback comes from a timeout.
C6_InterruptSkipsCallback ==
    /\ [](~execute_if_interrupted => count <= timeouts)
    /\ [][~execute_if_interrupted =>
            /\ (count' # count => ~is_interrupted)
            /\ (pc = "decide" /\ is_interrupted /\ pc' # pc
                  => pc' = "reset" /\ count' = count)
            /\ (pc = "reset" /\ pc' # pc
                  => pc' = "loop" /\ ~is_interrupted_ptr')]_vars

C6_Witness ==
    /\ ~execute_if_interrupted
    /\ is_running_ptr
    /\ nInterrupts > 0
    /\ is_interrupted
    /\ pc = "loop"
    /\ ~is_interrupted_ptr
    /\ count = 0

\* a timed-out wait whose callback has not begun yet
Inflight == IF pc \in {"tpred", "check", "decide"} THEN 1 ELSE 0

\* C7: with no interrupt() and before stop(), the callbacks begun are
\* exactly the elapsed interval timeouts.
C7_CountEqualsTimeouts ==
    (nInterrupts = 0 /\ is_running_ptr) => count + Inflight = timeouts

C7_Witness ==
    /\ nInterrupts = 0
    /\ is_running_ptr
    /\ count = 2
    /\ timeouts = 2

\* C8: interrupt() calls made while the flag is still set coalesce: waits
\* return true at most once per false->true write of the flag, and every
\* callback is owed to a timeout or to one such wake.
C8_InterruptsCoalesce ==
    /\ intrWakes <= rises
    /\ count <= timeouts + intrWakes

C8_Witness ==
    /\ nInterrupts = 2
    /\ coalesced = 1
    /\ rises = 1
    /\ intrWakes = 1
    /\ is_running_ptr
    /\ pc = "enter"

\* C9: the worker leaves wait_for only after a timeout or with the flag
\* set; after a wake-up with the flag clear it blocks again; so no callback
\* begins before the first timeout or interrupt().
C9_LeavesWaitOnlyOnTimeoutOrFlag ==
    /\ [](count > 0 => (timeouts > 0 \/ nInterrupts > 0))
    /\ [][/\ (pc \in InWait /\ pc' \notin InWait)
                => (pc = "tpred" \/ is_interrupted_ptr)
          /\ (pc = "pred" /\ ~is_interrupted_ptr /\ pc' # pc)
                => pc' = "enter"]_vars

C9_Witness ==
    /\ spurious
    /\ pc = "blocked"
    /\ ~is_interrupted_ptr
    /\ is_running_ptr
    /\ timeouts = 0
    /\ count = 0

\* C10: *is_running_ptr starts true, only ever changes true->false, is
\* written only by stop() (explicit or from ~repeater), and has changed
\* exactly once when the repeater is destroyed.
C10_RunningFallsOnce ==
    /\ []((is_running_ptr <=> runFalls = 0) /\ runFalls <= 1)
    /\ [](opc = "destroyed" => runFalls = 1)
    /\ [][/\ is_running_ptr' => is_running_ptr
          /\ is_running_ptr' # is_running_ptr
                => (opc = "idle" /\ opc' = "stop_interrupted")]_vars

C10_Witness ==
    /\ opc = "destroyed"
    /\ nStops = 2
    /\ runFalls = 1

\* a step of stop(), explicit or called from ~repeater
StopStep ==
    /\ opc' # opc
    /\ opc' \in {"stop_interrupted", "stop_notify"} \/ opc = "stop_notify"

\* C11: stop() is idempotent and safe: every step of it is enabled whatever
\* the worker does, a stop() after the first leaves *is_running_ptr false,
\* no step of stop() begins a callback, and an exited worker stays exited.
C11_StopIdempotent ==
    /\ []((opc = "idle" /\ nStops < MaxStops) => ENABLED stop_begin)
    /\ [](opc = "stop_interrupted" => ENABLED stop_interrupted)
    /\ [](opc = "stop_notify" => ENABLED stop_notify)
    /\ [][/\ ~is_running_ptr => ~is_running_ptr'
          /\ StopStep => count' = count
          /\ pc = "done" => (pc' = "done" /\ count' = count)]_vars

C11_Witness ==
    /\ stopAfterDone
    /\ nStops = 2
    /\ opc = "idle"
    /\ pc = "done"
    /\ ~is_running_ptr

\* C12 (as stated): a failing join in ~repeater is discarded and the
\* teardown never ends in process termination.
C12_TeardownNeverEscalates == opc # "terminated"

\* C13 (as stated): the flag is cleared after the wake is consumed and
\* before the callback of that cycle begins.
C13_ResetPrecedesCallback == pc = "fn" => wake = "none"

\* C13 (amended): the flag is cleared at the end of the cycle, after the
\* callback has returned or been skipped, and before the next wait.
C13_ResetFollowsCallback ==
    /\ pc \in {"decide", "fn", "reset"} => wake # "none"
    /\ pc \in InWait => wake = "none"
    /\ (pc \in {"decide", "fn"} /\ is_interrupted) => is_interrupted_ptr

C13_Witness ==
    /\ pc = "fn"
    /\ wake = "interrupt"
    /\ is_interrupted_ptr
    /\ execute_if_interrupted

\* C14: a wait that returns because of the flag write of stop() finds
\* *is_running_ptr false at line 113 and never reaches the callback.
C14_StopWakeSkipsCallback ==
    /\ wake = "stop" => pc \notin {"decide", "fn", "reset"}
    /\ (wake = "stop" /\ pc = "check") => ~is_running_ptr

C14_Witness ==
    /\ wake = "stop"
    /\ execute_if_interrupted
    /\ pc = "done"
    /\ count = 0
    /\ timeouts = 0

\* C15: a stop() that lands while the callback runs does not abort it; the
\* worker then goes through the reset to the loop top and exits, with no
\* further wait and no further callback.
C15_StopDuringCallback ==
    /\ [](stopDuringFn => pc \in {"fn", "reset", "loop", "done"})
    /\ [][stopDuringFn =>
            /\ count' = count
            /\ (pc = "fn" /\ pc' # pc) => pc' = "reset"]_vars

C15_Witness ==
    /\ stopDuringFn
    /\ pc = "done"
    /\ opc = "idle"
    /\ count = 1

\* C16: a worker that reads *is_running_ptr false after a wake goes to the
\* loop top and exits without running the callback or writing the flag.
C16_TerminalWakeLeavesFlag ==
    [][/\ (pc = "check" /\ ~is_running_ptr /\ pc' # pc)
            => (pc' = "loop" /\ count' = count
                    /\ is_interrupted_ptr' = is_interrupted_ptr)
       /\ (pc = "loop" /\ ~is_running_ptr /\ pc' # pc)
            => (pc' = "done" /\ count' = count
                    /\ is_interrupted_ptr' = is_interrupted_ptr)]_vars

C16_Witness ==
    /\ pc = "done"
    /\ is_interrupted
    /\ is_interrupted_ptr
    /\ nInterrupts = 0
    /\ count = 0

\* C17: a wait that timed out with the flag false, with *is_running_ptr
\* true at line 113, runs the callback exactly once in that cycle, for both
\* values of execute_if_interrupted.
C17_TimeoutRunsCallbackOnce ==
    [][/\ (pc = "decide" /\ ~is_interrupted /\ pc' # pc)
            => (pc' = "fn" /\ count' = count + 1)
       /\ (pc \in {"fn", "reset"} /\ pc' # pc)
            => (pc' \in {"reset", "loop"} /\ count' = count)]_vars

C17_Witness ==
    /\ pc = "fn"
    /\ wake = "timeout"
    /\ ~is_interrupted
    /\ ~execute_if_interrupted
    /\ count = 1

\* C18 (as stated): with no stop(), the worker clears a flag set by
\* interrupt() only if a wait has returned true since that call.
C18_NoInterruptLost ==
    [][(/\ pc = "reset"
        /\ pc' # pc
        /\ is_running_ptr
        /\ is_interrupted_ptr
        /\ ~is_interrupted_ptr') => observed]_vars

\* C19: the handle owns the shared state until destruction has completed,
\* the worker until its thread function has returned, and the state is
\* released only when both are gone, so the worker never uses it released.
C19_SharedStateOutlivesWorker ==
    /\ pc # "done" => use_count >= 1
    /\ opc # "destroyed" => use_count >= 1
    /\ use_count = 0 => (pc = "done" /\ opc = "destroyed")

C19_Witness ==
    /\ use_count = 0
    /\ dtorPc = "fn"

\* C20: interrupt() never blocks: its store and its notification are
\* enabled in every position of the worker.
C20_InterruptNeverBlocks ==
    /\ (opc = "idle" /\ nInterrupts < MaxInterrupts) => ENABLED interrupt_store
    /\ opc = "interrupt_notify" => ENABLED interrupt_notify

C20_Witness ==
    /\ opc = "interrupt_notify"
    /\ pc = "fn"
    /\ nInterrupts = 2

====
